---------------------------- MODULE Spec2Model ----------------------------
(***************************************************************************)
(* Model of the expression parser demo (src/expression.js): the lexer of   *)
(* the Parser constructor, the recursive-descent parser, the PrettyMath    *)
(* renderer and the click handler of the parse button.                     *)
(*                                                                         *)
(* JavaScript strings are sequences of one-character strings.  A token is  *)
(* a record [text, index, kind], an AST node a record [kind, precedence,   *)
(* optoken, arglist] whose kind names its class.  A call that may throw    *)
(* returns Ret(value, i) or Throw(ex, i), i being nextTokenIndex after it. *)
(***************************************************************************)
EXTENDS Naturals, Sequences, FiniteSets, TLC

VARIABLES
    textInput,       \* the pieces typed into the #ExpressionText box, in order
    errorBox,        \* errorBox.innerText
    prettyPrintBox,  \* prettyPrintBox.innerText
    selection,       \* the selection range of the text box
    parser,          \* the Parser object of the last click (Null before any)
    expr,            \* local expr of the last click: the AST, or Null
    pretty,          \* local pretty of the last click: a string value, or Null
    ex,              \* the exception caught in the last click, or Null
    calls            \* the stages the last click ran, in order

vars == <<textInput, errorBox, prettyPrintBox, selection, parser, expr, pretty, ex, calls>>

Null == [type |-> "null"]

(***************************************************************************)
(* Strings.                                                                *)
(***************************************************************************)
RECURSIVE Str(_)
\* The TLA+ string spelling a sequence of characters.
Str(s) == IF s = <<>> THEN "" ELSE Head(s) \o Str(Tail(s))

RECURSIVE Flatten(_)
Flatten(ss) == IF ss = <<>> THEN <<>> ELSE Head(ss) \o Flatten(Tail(ss))

\* textInput.value
TextValue == Flatten(textInput)

Digit == {"0", "1", "2", "3", "4", "5", "6", "7", "8", "9"}
Lower == {"a", "b", "c", "d", "e", "f", "g", "h", "i", "j", "k", "l", "m",
          "n", "o", "p", "q", "r", "s", "t", "u", "v", "w", "x", "y", "z"}
Upper == {"A", "B", "C", "D", "E", "F", "G", "H", "I", "J", "K", "L", "M",
          "N", "O", "P", "Q", "R", "S", "T", "U", "V", "W", "X", "Y", "Z"}
Latin == Lower \cup Upper
IdentStart == Latin \cup {"_"}
IdentChar == IdentStart \cup Digit
Whitespace == {" ", "\t", "\n", "\r", "\f"}

(***************************************************************************)
(* Token and the lexer of the Parser constructor.                          *)
(***************************************************************************)
\* new Token(text, index)
Token(text, index) ==
    [text |-> text, index |-> index,
     kind |-> IF Head(text) \in IdentStart THEN "identifier"
              ELSE IF Head(text) \in Digit THEN "number"
              ELSE "operator"]

RECURSIVE RunEnd(_, _, _)
\* The first position >= p of text whose character is not in class (Len+1 if none).
RunEnd(text, p, class) ==
    IF p <= Len(text) /\ text[p] \in class THEN RunEnd(text, p + 1, class) ELSE p

\* A numeric match that takes a '.' only with a digit after it.
NumericEnd_DigitAfterDot(text, p) ==
    LET d1 == RunEnd(text, p, Digit)
        d2 == IF d1 + 1 <= Len(text) /\ text[d1] = "." /\ text[d1 + 1] \in Digit
              THEN RunEnd(text, d1 + 1, Digit) ELSE d1
        s  == IF d2 + 1 <= Len(text) /\ text[d2 + 1] \in {"+", "-"}
              THEN d2 + 2 ELSE d2 + 1
    IN IF d2 <= Len(text) /\ text[d2] \in {"e", "E"}
          /\ s <= Len(text) /\ text[s] \in Digit
       THEN RunEnd(text, s, Digit) ELSE d2

\* [0-9]+(\.[0-9]*)?([eE][\+\-]?[0-9]+)? matched at p (text[p] a digit):
\* the position after the match.
NumericEnd(text, p) ==
    LET d1 == RunEnd(text, p, Digit)
        d2 == IF d1 <= Len(text) /\ text[d1] = "."
              THEN RunEnd(text, d1 + 1, Digit) ELSE d1
        s  == IF d2 + 1 <= Len(text) /\ text[d2 + 1] \in {"+", "-"}
              THEN d2 + 2 ELSE d2 + 1
    IN IF d2 <= Len(text) /\ text[d2] \in {"e", "E"}
          /\ s <= Len(text) /\ text[s] \in Digit
       THEN RunEnd(text, s, Digit) ELSE d2

\* reToken matched at p (text[p] not whitespace): the position after the match.
MatchEnd(text, p) ==
    IF text[p] \in Digit THEN NumericEnd(text, p)
    ELSE IF text[p] \in IdentStart THEN RunEnd(text, p + 1, IdentChar)
    ELSE p + 1

RECURSIVE Tokenize(_, _)
\* The for(;;) loop of the constructor: reToken.exec from position p on.
Tokenize(text, p) ==
    LET q == RunEnd(text, p, Whitespace)
    IN IF q > Len(text) THEN <<>>
       ELSE LET e == MatchEnd(text, q)
            IN <<Token(SubSeq(text, q, e - 1), q - 1)>> \o Tokenize(text, e)

\* new Parser(text)
Parser(text) == [nextTokenIndex |-> 0, tokenList |-> Tokenize(text, 1)]

(***************************************************************************)
(* Results of calls that may throw.                                        *)
(***************************************************************************)
Ret(v, i) == [thrown |-> FALSE, value |-> v, i |-> i]
Throw(e, i) == [thrown |-> TRUE, ex |-> e, i |-> i]

Exception(name, message, token) == [name |-> name, message |-> message, token |-> token]

\* The rest of a method after a call that may throw: a throw propagates,
\* a normal return r goes on with Rest(r).
Try(r, Rest(_)) == IF r.thrown THEN r ELSE Rest(r)

(***************************************************************************)
(* AST node classes.                                                       *)
(***************************************************************************)
\* Expression constructor
Expression(kind, precedence, optoken, arglist) ==
    [kind |-> kind, precedence |-> precedence, optoken |-> optoken, arglist |-> arglist]

Expression_Add(optoken, left, right) == Expression("Add", 1, optoken, <<left, right>>)
Expression_Subtract(optoken, left, right) == Expression("Subtract", 1, optoken, <<left, right>>)
Expression_Multiply(optoken, left, right) == Expression("Multiply", 2, optoken, <<left, right>>)
\* A Divide node with the precedence of a leaf.
Expression_Divide_Leaf(optoken, left, right) == Expression("Divide", 9, optoken, <<left, right>>)
Expression_Divide(optoken, left, right) == Expression("Divide", 2, optoken, <<left, right>>)
Expression_Power(optoken, left, right) == Expression("Power", 4, optoken, <<left, right>>)
Expression_Negative(optoken, arg) == Expression("Negative", 3, optoken, <<arg>>)
Expression_Identifier(token) == Expression("Identifier", 9, token, <<>>)
Expression_Number(token) == Expression("Number", 9, token, <<>>)
Expression_Function(token, arglist) == Expression("Function", 9, token, arglist)

(***************************************************************************)
(* Parser: the cursor methods.                                             *)
(***************************************************************************)
PeekNextToken(toks, i) == IF i < Len(toks) THEN toks[i + 1] ELSE Null

\* GetNextToken that returns a number token without moving the cursor.
GetNextToken_KeepsNumber(toks, i) ==
    IF i < Len(toks)
    THEN Ret(toks[i + 1], IF toks[i + 1].kind = "number" THEN i ELSE i + 1)
    ELSE Throw(Exception("SyntaxError", "Unexpected end of expression", Null), i)

GetNextToken(toks, i) ==
    IF i < Len(toks) THEN Ret(toks[i + 1], i + 1)
    ELSE Throw(Exception("SyntaxError", "Unexpected end of expression", Null), i)

\* Never throws: value is the token consumed, or Null.
NextTokenIs(toks, i, validOptionList) ==
    IF i < Len(toks) /\ toks[i + 1].text \in validOptionList
    THEN Ret(toks[i + 1], i + 1)
    ELSE Ret(Null, i)

\* ExpectToken that never names the token it found.
ExpectToken_NoToken(toks, i, text) ==
    IF PeekNextToken(toks, i) = Null \/ PeekNextToken(toks, i).text # text
    THEN Throw(Exception("SyntaxError", "Expected \"" \o Str(text) \o "\"", Null), i)
    ELSE Ret(toks[i + 1], i + 1)

ExpectToken(toks, i, text) ==
    LET token == PeekNextToken(toks, i)
    IN IF token = Null \/ token.text # text
       THEN Throw(Exception("SyntaxError", "Expected \"" \o Str(text) \o "\"", token), i)
       ELSE Ret(toks[i + 1], i + 1)

(***************************************************************************)
(* Parser: the grammar methods.                                            *)
(***************************************************************************)
RECURSIVE ParseExpr(_, _), ParseExprLoop(_, _, _), ParseMulExpr(_, _),
          ParseMulExprLoop(_, _, _), ParsePowExpr(_, _), ParseAtom(_, _),
          SkipUnaryPlus(_, _)

\* The while loop of ParseExpr, entered with the expression built so far.
ParseExprLoop(toks, i, left) ==
    LET optoken == NextTokenIs(toks, i, {<<"+">>, <<"-">>})
    IN IF optoken.value = Null THEN Ret(left, optoken.i)
       ELSE Try(ParseMulExpr(toks, optoken.i), LAMBDA right :
                ParseExprLoop(toks, right.i,
                    IF optoken.value.text = <<"+">>
                    THEN Expression_Add(optoken.value, left, right.value)
                    ELSE Expression_Subtract(optoken.value, left, right.value)))

ParseExpr(toks, i) ==
    Try(ParseMulExpr(toks, i), LAMBDA first : ParseExprLoop(toks, first.i, first.value))

\* The while loop of ParseMulExpr.
ParseMulExprLoop(toks, i, left) ==
    LET optoken == NextTokenIs(toks, i, {<<"*">>, <<"/">>})
    IN IF optoken.value = Null THEN Ret(left, optoken.i)
       ELSE Try(ParsePowExpr(toks, optoken.i), LAMBDA right :
                ParseMulExprLoop(toks, right.i,
                    IF optoken.value.text = <<"*">>
                    THEN Expression_Multiply(optoken.value, left, right.value)
                    ELSE Expression_Divide(optoken.value, left, right.value)))

ParseMulExpr(toks, i) ==
    Try(ParsePowExpr(toks, i), LAMBDA first : ParseMulExprLoop(toks, first.i, first.value))

\* while (this.NextTokenIs(['+'])) {}: the cursor after the leading '+' tokens.
SkipUnaryPlus(toks, i) ==
    LET plus == NextTokenIs(toks, i, {<<"+">>})
    IN IF plus.value = Null THEN plus.i ELSE SkipUnaryPlus(toks, plus.i)

\* atom [ "^" powexpr ], after ParseAtom has returned atom.
ParsePowExpr_Power(toks, atom) ==
    LET optoken == NextTokenIs(toks, atom.i, {<<"^">>})
    IN IF optoken.value = Null THEN Ret(atom.value, optoken.i)
       ELSE Try(ParsePowExpr(toks, optoken.i), LAMBDA right :
                Ret(Expression_Power(optoken.value, atom.value, right.value), right.i))

\* In the '-' branch NextTokenIs has already consumed the '-' when the inner
\* const optoken = this.GetNextToken() takes one more token as the node's optoken.
ParsePowExpr(toks, i) ==
    LET minus == NextTokenIs(toks, SkipUnaryPlus(toks, i), {<<"-">>})
    IN IF minus.value # Null
       THEN Try(GetNextToken(toks, minus.i), LAMBDA optoken :
                Try(ParsePowExpr(toks, optoken.i), LAMBDA arg :
                    Ret(Expression_Negative(optoken.value, arg.value), arg.i)))
       ELSE Try(ParseAtom(toks, minus.i), LAMBDA atom : ParsePowExpr_Power(toks, atom))

\* ident "(" expr ")", after the identifier token.
ParseAtom_Identifier(toks, token) ==
    LET open == NextTokenIs(toks, token.i, {<<"(">>})
    IN IF open.value = Null THEN Ret(Expression_Identifier(token.value), open.i)
       ELSE Try(ParseExpr(toks, open.i), LAMBDA arg :
                Try(ExpectToken(toks, arg.i, <<")">>), LAMBDA close :
                    Ret(Expression_Function(token.value, <<arg.value>>), close.i)))

ParseAtom(toks, i) ==
    Try(GetNextToken(toks, i), LAMBDA token :
        IF token.value.kind = "identifier" THEN ParseAtom_Identifier(toks, token)
        ELSE IF token.value.kind = "number"
        THEN Ret(Expression_Number(token.value), token.i)
        ELSE IF token.value.text = <<"(">>
        THEN Try(ParseExpr(toks, token.i), LAMBDA inner :
                 Try(ExpectToken(toks, inner.i, <<")">>), LAMBDA close :
                     Ret(inner.value, close.i)))
        ELSE Throw(Exception("SyntaxError",
                     "Expected identifier, number, function, or parenthesized expression.",
                     token.value), token.i))

\* Parse without the check for unconsumed tokens.
Parse_Unchecked(toks) == ParseExpr(toks, 0)

\* Parser.Parse, on a parser whose cursor is 0.
Parse(toks) ==
    Try(ParseExpr(toks, 0), LAMBDA top :
        IF top.i < Len(toks)
        THEN Throw(Exception("SyntaxError", "Syntax error", toks[top.i + 1]), top.i)
        ELSE top)

(***************************************************************************)
(* Renderer: PrettyMath of every node class.  A result is Ok(string) or    *)
(* Fail(exception).                                                        *)
(***************************************************************************)
Ok(v) == [thrown |-> FALSE, value |-> v]
Fail(e) == [thrown |-> TRUE, ex |-> e]

LeftParen == <<"\\", "l", "e", "f", "t", "(">>
RightParen == <<"\\", "r", "i", "g", "h", "t", ")">>
Parenthesized(s) == LeftParen \o s \o RightParen

RECURSIVE PrettyMath(_)

\* Expression.PrettyMath, the base method
Expression_PrettyMath(node) ==
    Fail(Exception("InternalError", "Do not know how to convert expression to TeX.",
                   node.optoken))

\* PrettyMath_Binary_LeftAssoc that parenthesizes the right child only when its
\* precedence is lower.
PrettyMath_Binary_LeftAssoc_Strict(node, opsymbol) ==
    Try(PrettyMath(node.arglist[1]), LAMBDA left :
        Try(PrettyMath(node.arglist[2]), LAMBDA right :
            Ok((IF node.arglist[1].precedence < node.precedence
                THEN Parenthesized(left.value) ELSE left.value)
               \o (IF opsymbol # <<>> THEN opsymbol ELSE node.optoken.text)
               \o (IF node.arglist[2].precedence < node.precedence
                   THEN Parenthesized(right.value) ELSE right.value))))

\* opsymbol <<>> stands for the omitted argument: (opsymbol || this.optoken.text)
PrettyMath_Binary_LeftAssoc(node, opsymbol) ==
    Try(PrettyMath(node.arglist[1]), LAMBDA left :
        Try(PrettyMath(node.arglist[2]), LAMBDA right :
            Ok((IF node.arglist[1].precedence < node.precedence
                THEN Parenthesized(left.value) ELSE left.value)
               \o (IF opsymbol # <<>> THEN opsymbol ELSE node.optoken.text)
               \o (IF node.arglist[2].precedence <= node.precedence
                   THEN Parenthesized(right.value) ELSE right.value))))

\* PrettyMath_Binary_RightAssoc with the two comparisons of the left-associative
\* method.
PrettyMath_Binary_RightAssoc_AsLeft(node) ==
    Try(PrettyMath(node.arglist[1]), LAMBDA left :
        Try(PrettyMath(node.arglist[2]), LAMBDA right :
            Ok((IF node.arglist[1].precedence < node.precedence
                THEN Parenthesized(left.value) ELSE left.value)
               \o node.optoken.text
               \o (IF node.arglist[2].precedence <= node.precedence
                   THEN Parenthesized(right.value)
                   ELSE <<"{">> \o right.value \o <<"}">>))))

PrettyMath_Binary_RightAssoc(node) ==
    Try(PrettyMath(node.arglist[1]), LAMBDA left :
        Try(PrettyMath(node.arglist[2]), LAMBDA right :
            Ok((IF node.arglist[1].precedence <= node.precedence
                THEN Parenthesized(left.value) ELSE left.value)
               \o node.optoken.text
               \o (IF node.arglist[2].precedence < node.precedence
                   THEN Parenthesized(right.value)
                   ELSE <<"{">> \o right.value \o <<"}">>))))

PrettyMath_SingleArg(node) ==
    IF Len(node.arglist) # 1
    THEN Fail(Exception("FormatError",
                "The function \"" \o Str(node.optoken.text) \o "\" requires exactly one argument.",
                node.optoken))
    ELSE PrettyMath(node.arglist[1])

Expression_Add_PrettyMath(node) == PrettyMath_Binary_LeftAssoc(node, <<>>)
Expression_Subtract_PrettyMath(node) == PrettyMath_Binary_LeftAssoc(node, <<>>)
Expression_Multiply_PrettyMath(node) == PrettyMath_Binary_LeftAssoc(node, <<" ">>)

Expression_Divide_PrettyMath(node) ==
    Try(PrettyMath(node.arglist[1]), LAMBDA left :
        Try(PrettyMath(node.arglist[2]), LAMBDA right :
            Ok(<<"\\", "f", "r", "a", "c", "{">> \o left.value \o <<"}", "{">>
               \o right.value \o <<"}">>)))

Expression_Power_PrettyMath(node) == PrettyMath_Binary_RightAssoc(node)

Expression_Negative_PrettyMath(node) ==
    Try(PrettyMath(node.arglist[1]), LAMBDA argtext :
        IF node.arglist[1].precedence < node.precedence
        THEN Ok(<<"-">> \o Parenthesized(argtext.value))
        ELSE Ok(<<"-">> \o argtext.value))

\* The own keys of the GreekLetters object literal.
GreekLetters ==
    {"alpha", "beta", "gamma", "delta", "epsilon", "zeta", "eta", "theta",
     "iota", "kappa", "lambda", "mu", "nu", "xi", "omicron", "pi",
     "rho", "sigma", "tau", "upsilon", "phi", "chi", "psi", "omega",
     "Alpha", "Beta", "Gamma", "Delta", "Epsilon", "Zeta", "Eta", "Theta",
     "Iota", "Kappa", "Lambda", "Mu", "Nu", "Xi", "Omicron", "Pi",
     "Rho", "Sigma", "Tau", "Upsilon", "Phi", "Chi", "Psi", "Omega"}

\* The keys an object literal inherits from Object.prototype; each has a truthy value.
ObjectPrototype ==
    {"constructor", "hasOwnProperty", "isPrototypeOf", "propertyIsEnumerable",
     "toLocaleString", "toString", "valueOf", "__proto__",
     "__defineGetter__", "__defineSetter__", "__lookupGetter__", "__lookupSetter__"}

\* The truth value of GreekLetters[text]: a property read, own or inherited.
GreekLetters_Lookup(text) == Str(text) \in GreekLetters \cup ObjectPrototype

Expression_Identifier_PrettyMath(node) ==
    IF Len(node.optoken.text) = 1 /\ node.optoken.text[1] \in Latin
    THEN Ok(node.optoken.text)
    ELSE IF GreekLetters_Lookup(node.optoken.text)
    THEN Ok(<<"\\">> \o node.optoken.text)
    ELSE Fail(Exception("FormatError",
                "The identifier " \o Str(node.optoken.text)
                    \o " is not valid. Must be a Latin letter or the name of a Greek letter.",
                node.optoken))

\* match(/^([^eE]+)[eE](.*)$/) on a number token: the position of its e or E
\* (Len+1 when the text has none and the match is null).
ExponentMark(text) == RunEnd(text, 1, {text[k] : k \in 1..Len(text)} \ {"e", "E"})

Expression_Number_PrettyMath(node) ==
    IF ExponentMark(node.optoken.text) <= Len(node.optoken.text)
    THEN Ok(SubSeq(node.optoken.text, 1, ExponentMark(node.optoken.text) - 1)
            \o <<" ", "\\", "t", "i", "m", "e", "s", " ", "1", "0", "^", "{">>
            \o SubSeq(node.optoken.text, ExponentMark(node.optoken.text) + 1,
                      Len(node.optoken.text))
            \o <<"}">>)
    ELSE Ok(node.optoken.text)

\* The three cases of the switch that render; template(arg) is the string built
\* around the argument.
Expression_Function_PrettyMath(node) ==
    LET name == Str(node.optoken.text)
    IN IF name = "sqrt"
       THEN Try(PrettyMath_SingleArg(node), LAMBDA arg :
                Ok(<<"\\", "s", "q", "r", "t", "{">> \o arg.value \o <<"}">>))
       ELSE IF name = "abs"
       THEN Try(PrettyMath_SingleArg(node), LAMBDA arg :
                Ok(<<"\\", "l", "e", "f", "t", "|">> \o arg.value
                   \o <<"\\", "r", "i", "g", "h", "t", "|">>))
       ELSE IF name \in {"cos", "sin"}
       THEN Try(PrettyMath_SingleArg(node), LAMBDA arg :
                Ok(<<"\\">> \o node.optoken.text \o Parenthesized(arg.value)))
       ELSE Fail(Exception("FormatError", "Unknown function \"" \o name \o "\"", node.optoken))

\* The dispatch with Expression_Number lacking its PrettyMath override.
PrettyMath_NumberNotOverridden(node) ==
    CASE node.kind = "Add" -> Expression_Add_PrettyMath(node)
      [] node.kind = "Subtract" -> Expression_Subtract_PrettyMath(node)
      [] node.kind = "Multiply" -> Expression_Multiply_PrettyMath(node)
      [] node.kind = "Divide" -> Expression_Divide_PrettyMath(node)
      [] node.kind = "Power" -> Expression_Power_PrettyMath(node)
      [] node.kind = "Negative" -> Expression_Negative_PrettyMath(node)
      [] node.kind = "Identifier" -> Expression_Identifier_PrettyMath(node)
      [] node.kind = "Function" -> Expression_Function_PrettyMath(node)
      [] OTHER -> Expression_PrettyMath(node)

\* The dynamic dispatch of node.PrettyMath(): a class without an override
\* runs the base method.
PrettyMath(node) ==
    CASE node.kind = "Add" -> Expression_Add_PrettyMath(node)
      [] node.kind = "Subtract" -> Expression_Subtract_PrettyMath(node)
      [] node.kind = "Multiply" -> Expression_Multiply_PrettyMath(node)
      [] node.kind = "Divide" -> Expression_Divide_PrettyMath(node)
      [] node.kind = "Power" -> Expression_Power_PrettyMath(node)
      [] node.kind = "Negative" -> Expression_Negative_PrettyMath(node)
      [] node.kind = "Identifier" -> Expression_Identifier_PrettyMath(node)
      [] node.kind = "Number" -> Expression_Number_PrettyMath(node)
      [] node.kind = "Function" -> Expression_Function_PrettyMath(node)
      [] OTHER -> Expression_PrettyMath(node)

(***************************************************************************)
(* The click handler of the parse button.                                  *)
(***************************************************************************)
StringValue(s) == [type |-> "string", value |-> s]

\* if (pretty): null and the empty string are falsy.
Truthy(v) == v # Null /\ v.value # <<>>

\* The try block: the locals it leaves, the exception it throws (Null if none),
\* and the cursor of the parser.
TryBlock_Rendered(parsed, rendered) ==
    [expr |-> parsed.value,
     pretty |-> IF rendered.thrown THEN Null ELSE StringValue(rendered.value),
     ex |-> IF rendered.thrown THEN rendered.ex ELSE Null,
     nextTokenIndex |-> parsed.i,
     calls |-> <<"Parse", "PrettyMath">>]

TryBlock_Parsed(parsed) ==
    IF parsed.thrown
    THEN [expr |-> Null, pretty |-> Null, ex |-> parsed.ex,
          nextTokenIndex |-> parsed.i, calls |-> <<"Parse">>]
    ELSE TryBlock_Rendered(parsed, PrettyMath(parsed.value))

TryBlock(new) == TryBlock_Parsed(Parse(new.tokenList))

\* The listener without its first two statements: a box it does not write keeps
\* what it showed.
ParseButton_Finish_Stale(text, boxes, new, try) ==
    [parser |-> [new EXCEPT !.nextTokenIndex = try.nextTokenIndex],
     expr |-> try.expr,
     pretty |-> try.pretty,
     ex |-> try.ex,
     errorBox |-> IF try.ex = Null THEN boxes.errorBox
                  ELSE IF try.ex.message # "" THEN try.ex.message
                  ELSE "UNKNOWN ERROR",
     selection |-> IF try.ex = Null THEN boxes.selection
                   ELSE IF try.ex.token # Null
                   THEN [start |-> try.ex.token.index,
                         end |-> try.ex.token.index + Len(try.ex.token.text)]
                   ELSE [start |-> Len(text), end |-> Len(text)],
     prettyPrintBox |-> IF Truthy(try.pretty)
                        THEN <<"$", "$">> \o try.pretty.value \o <<"$", "$">>
                        ELSE boxes.prettyPrintBox,
     calls |-> <<"Parser">> \o try.calls
               \o (IF try.ex = Null THEN <<>> ELSE <<"focus", "setSelectionRange">>)
               \o (IF Truthy(try.pretty) THEN <<"MathJax.Hub.Queue">> ELSE <<>>)]

\* The listener after its try block: the catch clause and if (pretty).
ParseButton_Finish(text, boxes, new, try) ==
    [parser |-> [new EXCEPT !.nextTokenIndex = try.nextTokenIndex],
     expr |-> try.expr,
     pretty |-> try.pretty,
     ex |-> try.ex,
     errorBox |-> IF try.ex = Null THEN ""
                  ELSE IF try.ex.message # "" THEN try.ex.message
                  ELSE "UNKNOWN ERROR",
     selection |-> IF try.ex = Null THEN boxes.selection
                   ELSE IF try.ex.token # Null
                   THEN [start |-> try.ex.token.index,
                         end |-> try.ex.token.index + Len(try.ex.token.text)]
                   ELSE [start |-> Len(text), end |-> Len(text)],
     prettyPrintBox |-> IF Truthy(try.pretty)
                        THEN <<"$", "$">> \o try.pretty.value \o <<"$", "$">>
                        ELSE <<>>,
     calls |-> <<"Parser">> \o try.calls
               \o (IF try.ex = Null THEN <<>> ELSE <<"focus", "setSelectionRange">>)
               \o (IF Truthy(try.pretty) THEN <<"MathJax.Hub.Queue">> ELSE <<>>)]

\* The listener run on textInput.value = text.  boxes holds errorBox,
\* prettyPrintBox and selection as the click finds them; the first two
\* statements empty both boxes.
ParseButton_Tried(text, boxes, new) == ParseButton_Finish(text, boxes, new, TryBlock(new))

ParseButton_Click(text, boxes) == ParseButton_Tried(text, boxes, Parser(text))

(***************************************************************************)
(* The state machine: the user edits the text box and clicks the button.   *)
(***************************************************************************)
Init ==
    /\ textInput = <<>>
    /\ errorBox = ""
    /\ prettyPrintBox = <<>>
    /\ selection = [start |-> 0, end |-> 0]
    /\ parser = Null
    /\ expr = Null
    /\ pretty = Null
    /\ ex = Null
    /\ calls = <<>>

\* The user types (or pastes) one more piece of alphabet at the end of the box;
\* the caret follows the text.
Type(alphabet, limit) ==
    /\ Len(textInput) < limit
    /\ \E piece \in alphabet :
          /\ textInput' = Append(textInput, piece)
          /\ selection' = [start |-> Len(TextValue) + Len(piece),
                           end |-> Len(TextValue) + Len(piece)]
    /\ UNCHANGED <<errorBox, prettyPrintBox, parser, expr, pretty, ex, calls>>

\* The user deletes the last piece typed.
Erase ==
    /\ textInput # <<>>
    /\ textInput' = SubSeq(textInput, 1, Len(textInput) - 1)
    /\ selection' = [start |-> Len(Flatten(textInput')), end |-> Len(Flatten(textInput'))]
    /\ UNCHANGED <<errorBox, prettyPrintBox, parser, expr, pretty, ex, calls>>

\* The state the listener leaves.
Shown(out) ==
    /\ parser' = out.parser
    /\ expr' = out.expr
    /\ pretty' = out.pretty
    /\ ex' = out.ex
    /\ errorBox' = out.errorBox
    /\ prettyPrintBox' = out.prettyPrintBox
    /\ selection' = out.selection
    /\ calls' = out.calls

\* A click of the parse button: the whole listener.
Click ==
    /\ Shown(ParseButton_Click(TextValue,
                [errorBox |-> errorBox, prettyPrintBox |-> prettyPrintBox,
                 selection |-> selection]))
    /\ UNCHANGED textInput

MaxLen == 4

\* Pieces of arithmetic: identifiers, numbers, operators, parentheses.
Keys == {<<"x">>, <<"2">>, <<"3">>, <<"+">>, <<"-">>, <<"*">>, <<"^">>,
         <<"(">>, <<")">>, <<"f", "o", "o">>}

Next == Type(Keys, MaxLen) \/ Click

Spec == Init /\ [][Next]_vars

(***************************************************************************)
(* Function calls and identifier names.                                    *)
(***************************************************************************)
MaxNames == 3

Names == {<<"s", "q", "r", "t">>, <<"a", "b", "s">>, <<"s", "i", "n">>, <<"f", "o", "o">>,
          <<"t", "h", "e", "t", "a">>, <<"O", "m", "e", "g", "a">>,
          <<"c", "o", "n", "s", "t", "r", "u", "c", "t", "o", "r">>,
          <<"t", "o", "S", "t", "r", "i", "n", "g">>, <<"_">>, <<"x">>,
          <<"(", "x", ")">>, <<"(", "x", ",", "y", ")">>, <<"(">>, <<")">>, <<",">>}

NextNames == Type(Names, MaxNames) \/ Click

SpecNames == Init /\ [][NextNames]_vars

(***************************************************************************)
(* Chains of the power operator.                                           *)
(***************************************************************************)
MaxPow == 5

PowKeys == {<<"a">>, <<"b">>, <<"c">>, <<"^">>, <<"(">>, <<")">>}

NextPow == Type(PowKeys, MaxPow) \/ Click

SpecPow == Init /\ [][NextPow]_vars

(***************************************************************************)
(* Fractions under every operator.                                         *)
(***************************************************************************)
MaxDiv == 4

DivKeys == {<<"a">>, <<"(", "b", "/", "c", ")">>, <<"(", "a", "+", "b", ")">>,
            <<"+">>, <<"-">>, <<"*">>, <<"/">>, <<"^">>}

NextDiv == Type(DivKeys, MaxDiv) \/ Click

SpecDiv == Init /\ [][NextDiv]_vars

(***************************************************************************)
(* Sums, differences and products of letters.                              *)
(***************************************************************************)
MaxParen == 4

ParenKeys == {<<"a">>, <<"c">>, <<"a", "-", "b">>, <<"a", "*", "b">>,
              <<"(", "a", "+", "b", ")">>, <<"(", "b", "-", "c", ")">>,
              <<"(", "a", "*", "(", "b", "-", "c", ")", ")">>,
              <<"+">>, <<"-">>, <<"*">>}

NextParen == Type(ParenKeys, MaxParen) \/ Click

SpecParen == Init /\ [][NextParen]_vars

(***************************************************************************)
(* Clicks on inputs that grow and shrink.                                  *)
(***************************************************************************)
MaxEdit == 3

EditKeys == {<<"x">>, <<"+">>, <<"(">>, <<"f", "o", "o">>, <<"2", "e", "3">>}

NextEdit == Type(EditKeys, MaxEdit) \/ Erase \/ Click

SpecEdit == Init /\ [][NextEdit]_vars

(***************************************************************************)
(* The earlier version of the page (unnamed/part_000): the same lexer and  *)
(* cursor, exceptions without a token, nodes without a precedence, a       *)
(* listener that parses and logs.                                          *)
(***************************************************************************)
Part000_Exception(name, message) == [name |-> name, message |-> message]

\* What the engine throws for the unqualified name ParsePowExpr in strict code.
Part000_ReferenceError ==
    Part000_Exception("ReferenceError", "ParsePowExpr is not defined")

Part000_Expression(kind, optoken, arglist) ==
    [kind |-> kind, optoken |-> optoken, arglist |-> arglist]

Part000_Expression_Add(optoken, left, right) ==
    Part000_Expression("Add", optoken, <<left, right>>)
Part000_Expression_Subtract(optoken, left, right) ==
    Part000_Expression("Subtract", optoken, <<left, right>>)
Part000_Expression_Power(optoken, left, right) ==
    Part000_Expression("Power", optoken, <<left, right>>)
Part000_Expression_Negative(optoken, arg) == Part000_Expression("Negative", optoken, <<arg>>)
Part000_Expression_Identifier(token) == Part000_Expression("Identifier", token, <<>>)
Part000_Expression_Number(token) == Part000_Expression("Number", token, <<>>)
Part000_Expression_Function(token, arglist) == Part000_Expression("Function", token, arglist)

Part000_GetNextToken(toks, i) ==
    IF i < Len(toks) THEN Ret(toks[i + 1], i + 1)
    ELSE Throw(Part000_Exception("SyntaxError", "Unexpected end of expression"), i)

Part000_ExpectToken(toks, i, text) ==
    IF PeekNextToken(toks, i) = Null \/ PeekNextToken(toks, i).text # text
    THEN Throw(Part000_Exception("SyntaxError", "Expected \"" \o Str(text) \o "\""), i)
    ELSE Ret(toks[i + 1], i + 1)

RECURSIVE Part000_ParseExpr(_, _), Part000_ParseExprLoop(_, _, _),
          Part000_ParseMulExpr(_, _), Part000_ParsePowExpr(_, _),
          Part000_ParseAtom(_, _), Part000_ParseArgList(_, _, _)

Part000_ParseExprLoop(toks, i, left) ==
    LET optoken == NextTokenIs(toks, i, {<<"+">>, <<"-">>})
    IN IF optoken.value = Null THEN Ret(left, optoken.i)
       ELSE Try(Part000_ParseMulExpr(toks, optoken.i), LAMBDA right :
                Part000_ParseExprLoop(toks, right.i,
                    IF optoken.value.text = <<"+">>
                    THEN Part000_Expression_Add(optoken.value, left, right.value)
                    ELSE Part000_Expression_Subtract(optoken.value, left, right.value)))

Part000_ParseExpr(toks, i) ==
    Try(Part000_ParseMulExpr(toks, i), LAMBDA first :
        Part000_ParseExprLoop(toks, first.i, first.value))

\* The body of the while loop begins with const right = ParsePowExpr(), a
\* name that no scope of the file binds: the first mulop consumed ends the
\* method with a ReferenceError, and the rest of the body never runs.
Part000_ParseMulExpr(toks, i) ==
    Try(Part000_ParsePowExpr(toks, i), LAMBDA first :
        IF NextTokenIs(toks, first.i, {<<"*">>, <<"/">>}).value = Null
        THEN Ret(first.value, first.i)
        ELSE Throw(Part000_ReferenceError, first.i + 1))

\* atom [ "^" powexpr ], after ParseAtom has returned atom.
Part000_ParsePowExpr_Power(toks, atom) ==
    LET optoken == NextTokenIs(toks, atom.i, {<<"^">>})
    IN IF optoken.value = Null THEN Ret(atom.value, optoken.i)
       ELSE Try(Part000_ParsePowExpr(toks, optoken.i), LAMBDA right :
                Ret(Part000_Expression_Power(optoken.value, atom.value, right.value),
                    right.i))

Part000_ParsePowExpr(toks, i) ==
    LET minus == NextTokenIs(toks, SkipUnaryPlus(toks, i), {<<"-">>})
    IN IF minus.value # Null
       THEN Try(Part000_GetNextToken(toks, minus.i), LAMBDA optoken :
                Try(Part000_ParsePowExpr(toks, optoken.i), LAMBDA arg :
                    Ret(Part000_Expression_Negative(optoken.value, arg.value), arg.i)))
       ELSE Try(Part000_ParseAtom(toks, minus.i), LAMBDA atom :
                Part000_ParsePowExpr_Power(toks, atom))

\* arglist ::= expr { "," expr }, entered with the arguments pushed so far.
Part000_ParseArgList(toks, i, arglist) ==
    Try(Part000_ParseExpr(toks, i), LAMBDA arg :
        IF NextTokenIs(toks, arg.i, {<<",">>}).value = Null
        THEN Ret(Append(arglist, arg.value), arg.i)
        ELSE Part000_ParseArgList(toks, arg.i + 1, Append(arglist, arg.value)))

\* ident [ "(" arglist ")" ], after the identifier token.
Part000_ParseAtom_Identifier(toks, token) ==
    IF NextTokenIs(toks, token.i, {<<"(">>}).value = Null
    THEN Ret(Part000_Expression_Identifier(token.value), token.i)
    ELSE Try(Part000_ParseArgList(toks, token.i + 1, <<>>), LAMBDA arglist :
             Try(Part000_ExpectToken(toks, arglist.i, <<")">>), LAMBDA close :
                 Ret(Part000_Expression_Function(token.value, arglist.value), close.i)))

Part000_ParseAtom(toks, i) ==
    Try(Part000_GetNextToken(toks, i), LAMBDA token :
        IF token.value.kind = "identifier" THEN Part000_ParseAtom_Identifier(toks, token)
        ELSE IF token.value.kind = "number"
        THEN Ret(Part000_Expression_Number(token.value), token.i)
        ELSE IF token.value.text = <<"(">>
        THEN Try(Part000_ParseExpr(toks, token.i), LAMBDA inner :
                 Try(Part000_ExpectToken(toks, inner.i, <<")">>), LAMBDA close :
                     Ret(inner.value, close.i)))
        ELSE Throw(Part000_Exception("SyntaxError",
                     "Expected identifier, number, function, or parenthesized expression."),
                   token.i))

Part000_Parse(toks) ==
    Try(Part000_ParseExpr(toks, 0), LAMBDA top :
        IF top.i # Len(toks)
        THEN Throw(Part000_Exception("SyntaxError", "Syntax error"), top.i)
        ELSE top)

\* The click listener of processButton, which has no try block: an exception
\* of Parse leaves the listener uncaught (kept in ex), a returned AST is logged.
ProcessButton_Finish(new, parsed) ==
    [parser |-> [new EXCEPT !.nextTokenIndex = parsed.i],
     expr |-> IF parsed.thrown THEN Null ELSE parsed.value,
     ex |-> IF parsed.thrown THEN parsed.ex ELSE Null,
     calls |-> <<"Parser", "Parse">>
               \o (IF parsed.thrown THEN <<>> ELSE <<"console.log">>)]

ProcessButton_Listener(new) == ProcessButton_Finish(new, Part000_Parse(new.tokenList))

ProcessButton_Shown(out) ==
    /\ parser' = out.parser
    /\ expr' = out.expr
    /\ ex' = out.ex
    /\ calls' = out.calls

ProcessButton_Click ==
    /\ ProcessButton_Shown(ProcessButton_Listener(Parser(TextValue)))
    /\ UNCHANGED <<textInput, errorBox, prettyPrintBox, selection, pretty>>

(***************************************************************************)
(* The same input given to either version of the page.                     *)
(***************************************************************************)
MaxMul == 3

MulKeys == {<<"a">>, <<"2">>, <<"f">>, <<"*">>, <<"/">>, <<"+">>, <<"(">>, <<")">>, <<",">>}

NextVersions == Type(MulKeys, MaxMul) \/ Click \/ ProcessButton_Click

SpecVersions == Init /\ [][NextVersions]_vars

(***************************************************************************)
(* Clicks on inputs typed character by character.                          *)
(***************************************************************************)
MaxLex == 5

LexKeys == {<<"2">>, <<".">>, <<"e">>, <<"+">>, <<"_">>, <<" ">>}

NextLex == Type(LexKeys, MaxLex) \/ Click

SpecLex == Init /\ [][NextLex]_vars

(***************************************************************************)
(* Helpers of the properties.                                              *)
(***************************************************************************)
\* The token texts of a token list, as TLA+ strings.
Texts(toks) == [k \in 1..Len(toks) |-> Str(toks[k].text)]

\* A click has happened.
Clicked == parser # Null

IsLetter(token) == Len(token.text) = 1 /\ token.text[1] \in Latin

RECURSIVE SubNodes(_)
\* The nodes of the tree rooted at node.
SubNodes(node) ==
    {node} \cup UNION {SubNodes(node.arglist[k]) : k \in 1..Len(node.arglist)}

StartsWith(s, prefix) == Len(prefix) <= Len(s) /\ SubSeq(s, 1, Len(prefix)) = prefix
EndsWith(s, suffix) ==
    Len(suffix) <= Len(s) /\ SubSeq(s, Len(s) - Len(suffix) + 1, Len(s)) = suffix

\* The markup of a node that renders.
Markup(node) == PrettyMath(node).value

\* What the markup of a parent puts before its first and after its last child.
Before(parent) ==
    CASE parent.kind = "Divide" -> <<"\\", "f", "r", "a", "c", "{">>
      [] parent.kind = "Negative" -> <<"-">>
      [] OTHER -> <<>>
After(parent) == IF parent.kind = "Divide" THEN <<"}">> ELSE <<>>

\* Child k of parent stands in the parent's markup inside \left( \right).
Enclosed(parent, k) ==
    IF k = 1
    THEN StartsWith(Markup(parent),
                    Before(parent) \o Parenthesized(Markup(parent.arglist[k])))
    ELSE EndsWith(Markup(parent),
                  Parenthesized(Markup(parent.arglist[k])) \o After(parent))

Operators == {"Add", "Subtract", "Multiply", "Divide", "Power", "Negative"}

\* The operator nodes of the last AST that have a Divide child, with its place.
FractionPlaces ==
    {pk \in SubNodes(expr) \X {1, 2} :
        /\ pk[1].kind \in Operators
        /\ pk[2] <= Len(pk[1].arglist)
        /\ pk[1].arglist[pk[2]].kind = "Divide"}

(***************************************************************************)
(* C1: a '-' followed by the tokens of a valid powexpr P parses, through   *)
(* ParsePowExpr, to a Negative node whose optoken is that '-' and whose    *)
(* only child is the AST of P, consuming exactly the '-' and the tokens of *)
(* P; in particular parse("-x") succeeds.                                  *)
(***************************************************************************)
C1_UnaryMinus ==
    (Clicked /\ Len(parser.tokenList) >= 2 /\ parser.tokenList[1].text = <<"-">>) =>
        LET toks == parser.tokenList
            P == ParsePowExpr(toks, 1)
            whole == ParsePowExpr(toks, 0)
        IN ~P.thrown =>
              /\ ~whole.thrown
              /\ whole.i = P.i
              /\ whole.value = Expression_Negative(toks[1], P.value)
              /\ (Texts(toks) = <<"-", "x">> => expr # Null)

(***************************************************************************)
(* C2: name "(" letter {"," letter} ")" parses to a Function node, and     *)
(* parse followed by render succeeds on it exactly when the name is sqrt,  *)
(* abs, sin or cos and there is one argument; otherwise it fails with a    *)
(* FormatError carrying the name token, never with a SyntaxError.          *)
(***************************************************************************)
\* toks is name ( letter , letter ... ) with one or more letters.
IsCall(toks) ==
    /\ Len(toks) >= 4 /\ Len(toks) % 2 = 0
    /\ toks[1].kind = "identifier"
    /\ toks[2].text = <<"(">>
    /\ toks[Len(toks)].text = <<")">>
    /\ \A k \in 3..(Len(toks) - 1) :
          IF k % 2 = 1 THEN IsLetter(toks[k]) ELSE toks[k].text = <<",">>

C2_FunctionCalls ==
    (Clicked /\ IsCall(parser.tokenList)) =>
        LET toks == parser.tokenList
            nargs == (Len(toks) - 2) \div 2
        IN IF Str(toks[1].text) \in {"sqrt", "abs", "sin", "cos"} /\ nargs = 1
           THEN pretty # Null /\ ex = Null
           ELSE /\ pretty = Null
                /\ ex # Null
                /\ ex.name = "FormatError"
                /\ ex.token = toks[1]

(***************************************************************************)
(* C3: an input that is one identifier renders verbatim when it is one     *)
(* Latin letter, as backslash + name when it is one of the 48 Greek letter *)
(* names, and otherwise fails with a FormatError carrying its token.       *)
(***************************************************************************)
C3_Identifiers ==
    (Clicked /\ Len(parser.tokenList) = 1 /\ parser.tokenList[1].kind = "identifier") =>
        LET token == parser.tokenList[1]
        IN IF IsLetter(token)
           THEN pretty = StringValue(token.text)
           ELSE IF Str(token.text) \in GreekLetters
           THEN pretty = StringValue(<<"\\">> \o token.text)
           ELSE /\ pretty = Null
                /\ ex # Null
                /\ ex.name = "FormatError"
                /\ ex.token = token

(***************************************************************************)
(* C4: a chain letter ^ letter ^ ... ^ letter parses to Power nodes nested *)
(* to the right, and renders with every exponent in braces; "a^b^c"        *)
(* renders as a^{b^{c}}.                                                   *)
(***************************************************************************)
IsPowerChain(toks) ==
    /\ Len(toks) >= 3 /\ Len(toks) % 2 = 1
    /\ \A k \in 1..Len(toks) :
          IF k % 2 = 1 THEN IsLetter(toks[k]) ELSE toks[k].text = <<"^">>

RECURSIVE RightNested(_, _)
\* The chain from token k on, grouped to the right.
RightNested(toks, k) ==
    IF k = Len(toks) THEN Expression_Identifier(toks[k])
    ELSE Expression_Power(toks[k + 1], Expression_Identifier(toks[k]), RightNested(toks, k + 2))

RECURSIVE BracedChain(_, _)
BracedChain(toks, k) ==
    IF k = Len(toks) THEN toks[k].text
    ELSE toks[k].text \o <<"^", "{">> \o BracedChain(toks, k + 2) \o <<"}">>

C4_PowerChain ==
    (Clicked /\ IsPowerChain(parser.tokenList)) =>
        /\ expr = RightNested(parser.tokenList, 1)
        /\ pretty = StringValue(BracedChain(parser.tokenList, 1))
        /\ (Texts(parser.tokenList) = <<"a", "^", "b", "^", "c">> =>
                Str(pretty.value) = "a^{b^{c}}")

\* The claim as it was stated: "a^b^c" renders as a^{b^c}.
C4_Original ==
    (Clicked /\ Texts(parser.tokenList) = <<"a", "^", "b", "^", "c">>) =>
        /\ expr = RightNested(parser.tokenList, 1)
        /\ pretty # Null
        /\ Str(pretty.value) = "a^{b^c}"

C4_Witness ==
    /\ Clicked
    /\ Texts(parser.tokenList) = <<"a", "^", "b", "^", "c">>
    /\ expr # Null /\ expr.kind = "Power" /\ expr.arglist[2].kind = "Power"
    /\ pretty # Null

(***************************************************************************)
(* C5: a Divide node renders as \frac{numerator}{denominator} with neither *)
(* operand parenthesized by it.  Its parent leaves the fraction bare when  *)
(* the parent is an Add, a Subtract or a Divide, or a Multiply with the    *)
(* fraction on the left, and encloses it in \left( \right) when the        *)
(* fraction is the right operand of a Multiply, the base or the exponent   *)
(* of a Power, or the operand of a Negative.                               *)
(***************************************************************************)
IsFraction(node) ==
    Markup(node) = <<"\\", "f", "r", "a", "c", "{">> \o Markup(node.arglist[1])
                   \o <<"}", "{">> \o Markup(node.arglist[2]) \o <<"}">>

EnclosingPlaces == {<<"Multiply", 2>>, <<"Power", 1>>, <<"Power", 2>>, <<"Negative", 1>>}

C5_Fractions ==
    (Clicked /\ pretty # Null) =>
        /\ \A node \in SubNodes(expr) : node.kind = "Divide" => IsFraction(node)
        /\ \A pk \in FractionPlaces :
              Enclosed(pk[1], pk[2]) <=> (<<pk[1].kind, pk[2]>> \in EnclosingPlaces)
        /\ (Texts(parser.tokenList) = <<"a", "+", "(", "b", "/", "c", ")">> =>
                Str(pretty.value) = "a+\\frac{b}{c}")

\* The claim as it was stated: no parent encloses the fraction.
C5_Original ==
    (Clicked /\ pretty # Null) =>
        /\ \A node \in SubNodes(expr) : node.kind = "Divide" => IsFraction(node)
        /\ \A pk \in FractionPlaces : ~Enclosed(pk[1], pk[2])

C5_Witness ==
    /\ Clicked /\ pretty # Null
    /\ Texts(parser.tokenList) = <<"a", "*", "(", "b", "/", "c", ")">>
    /\ <<expr, 2>> \in FractionPlaces
    /\ Enclosed(expr, 2)

(***************************************************************************)
(* C6: on expressions of letters, binary + - * and parentheses, the        *)
(* renderer puts \left( \right) around the left child of an Add, Subtract  *)
(* or Multiply node exactly when the child's precedence is lower, around   *)
(* the right child exactly when it is lower or equal; the markup read back *)
(* (' ' as '*') parses to the same grouping, and with any one pair dropped *)
(* it parses to another grouping.                                          *)
(***************************************************************************)
RECURSIVE Reread(_)
\* The markup as source text: \left( is (, \right) is ), ' ' is *.
Reread(m) ==
    IF m = <<>> THEN <<>>
    ELSE IF StartsWith(m, LeftParen)
    THEN <<"(">> \o Reread(SubSeq(m, Len(LeftParen) + 1, Len(m)))
    ELSE IF StartsWith(m, RightParen)
    THEN <<")">> \o Reread(SubSeq(m, Len(RightParen) + 1, Len(m)))
    ELSE IF Head(m) = " " THEN <<"*">> \o Reread(Tail(m))
    ELSE <<Head(m)>> \o Reread(Tail(m))

RECURSIVE Shape(_)
\* A tree without the places of its tokens.
Shape(node) ==
    [kind |-> node.kind,
     text |-> IF node.arglist = <<>> THEN node.optoken.text ELSE <<>>,
     args |-> [k \in 1..Len(node.arglist) |-> Shape(node.arglist[k])]]

\* The grouping the parser gives a source text.
Grouping(source) ==
    LET parsed == Parse(Tokenize(source, 1))
    IN IF parsed.thrown THEN [kind |-> "none"] ELSE Shape(parsed.value)

RECURSIVE MatchingClose(_, _, _)
\* The ) that closes the ( before position j, depth pairs being open in between.
MatchingClose(source, j, depth) ==
    IF source[j] = "(" THEN MatchingClose(source, j + 1, depth + 1)
    ELSE IF source[j] = ")"
    THEN IF depth = 0 THEN j ELSE MatchingClose(source, j + 1, depth - 1)
    ELSE MatchingClose(source, j + 1, depth)

\* source without the ( at position i and the ) that closes it.
DropPair(source, i) ==
    LET j == MatchingClose(source, i + 1, 0)
    IN SubSeq(source, 1, i - 1) \o SubSeq(source, i + 1, j - 1)
       \o SubSeq(source, j + 1, Len(source))

OpenPositions(source) == {i \in 1..Len(source) : source[i] = "("}

LeftAssocKinds == {"Add", "Subtract", "Multiply"}

\* The AST holds only Add, Subtract, Multiply and single-letter identifiers.
SumsOfLetters(root) ==
    \A node \in SubNodes(root) :
        \/ node.kind \in LeftAssocKinds
        \/ node.kind = "Identifier" /\ IsLetter(node.optoken)

C6_Parentheses ==
    (Clicked /\ expr # Null /\ SumsOfLetters(expr)) =>
        /\ pretty # Null
        /\ \A node \in SubNodes(expr) :
              node.kind \in LeftAssocKinds =>
                 /\ Enclosed(node, 1) <=> node.arglist[1].precedence < node.precedence
                 /\ Enclosed(node, 2) <=> node.arglist[2].precedence <= node.precedence
        /\ LET source == Reread(pretty.value)
           IN /\ Cardinality(OpenPositions(source))
                   = Cardinality({nk \in SubNodes(expr) \X {1, 2} :
                                     nk[1].kind \in LeftAssocKinds /\ Enclosed(nk[1], nk[2])})
              /\ Grouping(source) = Shape(expr)
              /\ \A i \in OpenPositions(source) : Grouping(DropPair(source, i)) # Shape(expr)
        /\ LET input == Texts(parser.tokenList)
           IN /\ input = <<"a", "-", "b", "-", "c">> => Str(pretty.value) = "a-b-c"
              /\ input = <<"a", "*", "b", "+", "c">> => Str(pretty.value) = "a b+c"
              /\ input = <<"(", "a", "+", "b", ")", "*", "c">>
                    => Str(pretty.value) = "\\left(a+b\\right) c"
              /\ input = <<"a", "-", "(", "b", "-", "c", ")">>
                    => Str(pretty.value) = "a-\\left(b-c\\right)"

C6_Witness ==
    /\ Clicked /\ expr # Null /\ SumsOfLetters(expr) /\ pretty # Null
    /\ Texts(parser.tokenList) = <<"a", "-", "(", "b", "-", "c", ")">>
    /\ Enclosed(expr, 2)
    /\ Grouping(DropPair(Reread(pretty.value), 3)) # Shape(expr)

(***************************************************************************)
(* C7: when Parse returns an AST the cursor equals the number of tokens;   *)
(* when ParseExpr returns at the top level with a token left, Parse fails  *)
(* with a SyntaxError carrying the first unconsumed token and returns no   *)
(* AST.                                                                    *)
(***************************************************************************)
C7_AllConsumed ==
    Clicked =>
        LET toks == parser.tokenList
            top == ParseExpr(toks, 0)
        IN /\ expr # Null => parser.nextTokenIndex = Len(toks)
           /\ (~top.thrown /\ top.i < Len(toks)) =>
                 /\ expr = Null /\ pretty = Null
                 /\ ex # Null
                 /\ ex.name = "SyntaxError"
                 /\ ex.token = toks[top.i + 1]
                 /\ parser.nextTokenIndex = top.i

C7_Witness ==
    /\ Clicked
    /\ Texts(parser.tokenList) = <<"2", "x", "+">>
    /\ ~ParseExpr(parser.tokenList, 0).thrown
    /\ parser.nextTokenIndex = 1
    /\ ex # Null /\ ex.token = parser.tokenList[2]

(***************************************************************************)
(* C8: a SyntaxError carries no token exactly when the parser asked for a  *)
(* token with the cursor at the end of the token list; otherwise it        *)
(* carries the token at which parsing stopped, every token before it       *)
(* having been consumed.  "2+" fails with no token, "2+*3" with the '*'    *)
(* token at offset 2.                                                      *)
(***************************************************************************)
\* The messages of the two throws that ask for a token: GetNextToken, ExpectToken.
AskedForToken == ex.message \in {"Unexpected end of expression", "Expected \")\""}

\* The message of the throw of ParseAtom, which has consumed the token it rejects.
RejectedToken ==
    ex.message = "Expected identifier, number, function, or parenthesized expression."

C8_ErrorToken ==
    (Clicked /\ ex # Null /\ ex.name = "SyntaxError") =>
        LET toks == parser.tokenList
            i == parser.nextTokenIndex
        IN /\ ex.token = Null <=> (AskedForToken /\ i = Len(toks))
           /\ ex.token # Null =>
                 ex.token = IF RejectedToken THEN toks[i] ELSE toks[i + 1]
           /\ Texts(toks) = <<"2", "+">> => ex.token = Null
           /\ Texts(toks) = <<"2", "+", "*", "3">> =>
                 ex.token # Null /\ ex.token.text = <<"*">> /\ ex.token.index = 2

C8_Witness ==
    /\ Clicked /\ ex # Null /\ ex.name = "SyntaxError"
    /\ Texts(parser.tokenList) = <<"2", "+", "*", "3">>
    /\ ex.token = parser.tokenList[3]

(***************************************************************************)
(* C9: every click leaves exactly one of the two boxes filled, from that   *)
(* click's input alone: a failed parse never reaches the renderer, a       *)
(* failure leaves the markup box empty and the message of the first error  *)
(* in the error box, a success leaves the error box empty and the whole    *)
(* markup in the markup box.                                               *)
(***************************************************************************)
\* What a click on the present input shows on a page that has shown nothing.
OnBlankPage ==
    ParseButton_Click(TextValue,
        [errorBox |-> "", prettyPrintBox |-> <<>>, selection |-> [start |-> 0, end |-> 0]])

\* What a click on the present input leaves in the boxes and in the log of calls.
C9_Click ==
    LET parsed == Parse(Tokenize(TextValue, 1))
    IN /\ (errorBox' = "") # (prettyPrintBox' = <<>>)
       /\ errorBox' = OnBlankPage.errorBox
       /\ prettyPrintBox' = OnBlankPage.prettyPrintBox
       /\ parsed.thrown =>
             /\ \A k \in 1..Len(calls') : calls'[k] # "PrettyMath"
             /\ errorBox' = parsed.ex.message
             /\ prettyPrintBox' = <<>>
       /\ ~parsed.thrown =>
             IF PrettyMath(parsed.value).thrown
             THEN /\ errorBox' = PrettyMath(parsed.value).ex.message
                  /\ prettyPrintBox' = <<>>
             ELSE /\ errorBox' = ""
                  /\ prettyPrintBox' = <<"$", "$">> \o Markup(parsed.value) \o <<"$", "$">>

C9_EveryClick == [][Click => C9_Click]_vars

\* A failed click on an input whose text box once held more.
C9_Witness ==
    /\ Clicked /\ ex # Null
    /\ parser.tokenList = Tokenize(TextValue, 1)
    /\ Texts(parser.tokenList) = <<"x", "+">>
    /\ errorBox = "Unexpected end of expression"
    /\ prettyPrintBox = <<>>

(***************************************************************************)
(* C10: rendering an AST that Parse returned gives markup, or fails with a *)
(* FormatError carrying the optoken of an Identifier or Function node of   *)
(* the AST; every node has a class that overrides PrettyMath, so the       *)
(* InternalError of the base method is never thrown.                       *)
(***************************************************************************)
Overriding == {"Add", "Subtract", "Multiply", "Divide", "Power", "Negative",
               "Identifier", "Number", "Function"}

C10_RenderOutcome ==
    (Clicked /\ expr # Null) =>
        /\ \A node \in SubNodes(expr) : node.kind \in Overriding
        /\ \/ pretty # Null /\ ex = Null
           \/ /\ pretty = Null
              /\ ex # Null
              /\ ex.name = "FormatError"
              /\ \E node \in SubNodes(expr) :
                    /\ node.kind \in {"Identifier", "Function"}
                    /\ node.optoken = ex.token
                    /\ PrettyMath(node) = Fail(ex)

C10_Witness ==
    /\ Clicked /\ expr # Null /\ ex # Null
    /\ ex.name = "FormatError"
    /\ Texts(parser.tokenList) = <<"2", "*", "foo">>
    /\ ex.token = parser.tokenList[3]

(***************************************************************************)
(* C11: in both versions of the parser, whenever Parse does not return an  *)
(* AST it fails with an error named SyntaxError, also for inputs with a    *)
(* '*' or '/' between two operands.                                        *)
(***************************************************************************)
C11_OnlySyntaxErrors ==
    (Clicked /\ expr = Null) => (ex # Null /\ ex.name = "SyntaxError")

(***************************************************************************)
(* C12: the lexer never fails and its tokens, in order, partition the      *)
(* non-whitespace characters of the input: offsets increase, tokens do not *)
(* overlap, each text is the source substring at its offset, and at each   *)
(* position the token is the numeric literal there, else the identifier    *)
(* there, else the single character, classified by its first character.    *)
(* The numeric literal is digits [ "." [digits] ] [ (e|E) [+|-] digits ]:  *)
(* the digits after the point may be absent.                               *)
(***************************************************************************)
Digits(s) == s # <<>> /\ \A k \in 1..Len(s) : s[k] \in Digit

\* "." digits, or nothing
PointDigits(s) == s = <<>> \/ (s[1] = "." /\ Digits(Tail(s)))

\* "." [digits], or nothing
PointMaybeDigits(s) == s = <<>> \/ (s[1] = "." /\ \A k \in 2..Len(s) : s[k] \in Digit)

\* (e|E) [+|-] digits, or nothing
ExponentPart(s) ==
    s = <<>> \/ /\ s[1] \in {"e", "E"}
                /\ Digits(IF Len(s) >= 2 /\ s[2] \in {"+", "-"}
                          THEN SubSeq(s, 3, Len(s)) ELSE Tail(s))

\* s is digits, then a fraction part, then an exponent part.
NumericLiteral(s, FractionPart(_)) ==
    \E a \in 1..Len(s) : \E b \in a..Len(s) :
        /\ Digits(SubSeq(s, 1, a))
        /\ FractionPart(SubSeq(s, a + 1, b))
        /\ ExponentPart(SubSeq(s, b + 1, Len(s)))

IdentifierForm(s) ==
    s # <<>> /\ s[1] \in IdentStart /\ \A k \in 2..Len(s) : s[k] \in IdentChar

\* The lengths of the prefixes of text from position p on that have the form.
FormLengths(text, p, Form(_)) ==
    {n \in 1..(Len(text) - p + 1) : Form(SubSeq(text, p, p + n - 1))}

Longest(lengths) == CHOOSE n \in lengths : \A m \in lengths : m <= n

\* The length of the token that the priority rule puts at position p.
PriorityLength(text, p, FractionPart(_)) ==
    LET numeric == FormLengths(text, p, LAMBDA s : NumericLiteral(s, FractionPart))
        ident == FormLengths(text, p, IdentifierForm)
    IN IF numeric # {} THEN Longest(numeric)
       ELSE IF ident # {} THEN Longest(ident)
       ELSE 1

\* The positions of text (from 1) that token covers.
Covered(token) == (token.index + 1)..(token.index + Len(token.text))

\* toks partitions the non-whitespace characters of text, in order.
Partitions(toks, text) ==
    /\ \A k \in 1..Len(toks) :
          /\ toks[k].text # <<>>
          /\ toks[k].index + Len(toks[k].text) <= Len(text)
          /\ toks[k].text = SubSeq(text, toks[k].index + 1, toks[k].index + Len(toks[k].text))
          /\ k < Len(toks) =>
                /\ toks[k].index < toks[k + 1].index
                /\ toks[k].index + Len(toks[k].text) <= toks[k + 1].index
    /\ UNION {Covered(toks[k]) : k \in 1..Len(toks)}
          = {q \in 1..Len(text) : text[q] \notin Whitespace}

Classified(token) ==
    token.kind = IF token.text[1] \in Digit THEN "number"
                 ELSE IF token.text[1] \in IdentStart THEN "identifier"
                 ELSE "operator"

\* What a click leaves in parser.tokenList for the present input.
Lexed(FractionPart(_)) ==
    /\ parser' # Null
    /\ Partitions(parser'.tokenList, TextValue)
    /\ \A k \in 1..Len(parser'.tokenList) :
          /\ Classified(parser'.tokenList[k])
          /\ Len(parser'.tokenList[k].text)
                = PriorityLength(TextValue, parser'.tokenList[k].index + 1, FractionPart)

C12_Lexer == [][Click => Lexed(PointMaybeDigits)]_vars

\* C12 as stated, with the literal digits [ "." digits ] [ (e|E) [+|-] digits ].
C12_Original == [][Click => Lexed(PointDigits)]_vars

C12_Witness ==
    /\ Clicked
    /\ parser.tokenList = Tokenize(TextValue, 1)
    /\ Texts(parser.tokenList) = <<"2.", "e_">>
    /\ parser.tokenList[2].index = 3

(***************************************************************************)
(* C13: Parse ends on every token list: from any cursor position, a call   *)
(* of ParseExpr, ParseMulExpr, ParsePowExpr or ParseAtom leaves the cursor *)
(* at or after where it found it and within 0..tokenList.length, and a     *)
(* call that returns normally has advanced it by at least one token (so    *)
(* the tree it returns has no more nodes than tokens consumed).            *)
(***************************************************************************)
\* The outcome r of a call entered with the cursor at i.
Progresses(toks, i, r) ==
    /\ r.i \in i..Len(toks)
    /\ ~r.thrown =>
          /\ r.i >= i + 1
          /\ Cardinality(SubNodes(r.value)) <= r.i - i

C13_CursorAdvances ==
    Clicked =>
        LET toks == parser.tokenList
        IN /\ parser.nextTokenIndex \in 0..Len(toks)
           /\ Parse(toks).i = parser.nextTokenIndex
           /\ Parse(toks).thrown = (expr = Null)
           /\ \A i \in 0..Len(toks) :
                 /\ Progresses(toks, i, ParseExpr(toks, i))
                 /\ Progresses(toks, i, ParseMulExpr(toks, i))
                 /\ Progresses(toks, i, ParsePowExpr(toks, i))
                 /\ Progresses(toks, i, ParseAtom(toks, i))
                 /\ SkipUnaryPlus(toks, i) \in i..Len(toks)
                 /\ GetNextToken(toks, i).i \in i..Len(toks)
                 /\ ExpectToken(toks, i, <<")">>).i \in i..Len(toks)
                 /\ \A text \in {toks[k].text : k \in 1..Len(toks)} :
                       NextTokenIs(toks, i, {text}).i \in i..Len(toks)

\* A call entered in the middle of the input that returns after two tokens,
\* and one entered at the end that throws with the cursor where it was.
C13_Witness ==
    /\ Clicked
    /\ Texts(parser.tokenList) = <<"(", "x", "^", "2">>
    /\ ~ParsePowExpr(parser.tokenList, 1).thrown
    /\ ParsePowExpr(parser.tokenList, 1).i = 4
    /\ ParseAtom(parser.tokenList, 4).thrown
    /\ ParseAtom(parser.tokenList, 4).i = 4
    /\ parser.nextTokenIndex = 4 /\ expr = Null

=============================================================================
